---- MODULE Spec2Model ----
(***************************************************************************)
(* A model of src/server.js: the order-creation handler                    *)
(* (POST /api/restaurants/:restaurantId/orders), the status-update handler *)
(* (PUT /api/orders/:orderId/status) and sendWhatsAppMessage, over the     *)
(* store tables they read and write.                                       *)
(*                                                                         *)
(* Money is counted in cents.  A tax rate is counted in ten-thousandths    *)
(* (0.08 is 800), so subtotal * rate is in ten-thousandths of a cent; tax  *)
(* and total are kept in that unit until toFixed(2) rounds them to cents.  *)
(* Decimal arithmetic is exact here: binary floating-point error of the    *)
(* JavaScript numbers is not modelled.                                     *)
(*                                                                         *)
(* Every await of a handler is a suspension point: each handler is cut     *)
(* into one action per resumption, and the requests interleave between     *)
(* them.  A store call may fail (the code tests every `error` but one).    *)
(***************************************************************************)
EXTENDS Integers, Sequences, FiniteSets, TLC

\* Requests that arrive in one behaviour of Spec.
MaxReq == 2
\* Lines of an order request in SpecPricing.
MaxLines == 2

Requests == 1..MaxReq

VARIABLES
    menu_items,      \* store table menu_items: a set of rows
    orders,          \* store table orders: order id -> row
    metaConfigured,  \* process.env.META_PHONE_ID && process.env.META_ACCESS_TOKEN
    applied,         \* per order id: the requests whose update the store applied, in order
    pc,              \* per request: where its handler is suspended
    body,            \* per request: req.params and req.body
    loc,             \* per request: the handler's local variables
    res,             \* per request: the HTTP response
    emitted,         \* per request: the io.emit calls it made, in order
    whatsapp         \* per request: the gateway calls it made, in order

vars == <<menu_items, orders, metaConfigured, applied, pc, body, loc, res, emitted, whatsapp>>

----------------------------------------------------------------------------
\* Text, numbers and rounding

Digits == {"0", "1", "2", "3", "4", "5", "6", "7", "8", "9"}

DigitVal(c) ==
    CASE c = "0" -> 0 [] c = "1" -> 1 [] c = "2" -> 2 [] c = "3" -> 3
      [] c = "4" -> 4 [] c = "5" -> 5 [] c = "6" -> 6 [] c = "7" -> 7
      [] c = "8" -> 8 [] c = "9" -> 9

NaN == [nan |-> TRUE, val |-> 0]

Num(n) == [nan |-> FALSE, val |-> n]

RECURSIVE SkipSpaces(_)
SkipSpaces(s) ==
    IF s # <<>> /\ Head(s) = " " THEN SkipSpaces(Tail(s)) ELSE s

\* The value of the longest prefix of digits of s, continuing from acc.
RECURSIVE DigitsPrefix(_, _)
DigitsPrefix(s, acc) ==
    IF s # <<>> /\ Head(s) \in Digits
    THEN DigitsPrefix(Tail(s), 10 * acc + DigitVal(Head(s)))
    ELSE acc

\* parseInt(text): leading blanks, an optional sign, then the longest prefix
\* of digits; NaN when there is no digit.  An absent field (undefined) is
\* the empty text here: parseInt reads "undefined", which has no digit
\* either.
ParseInt(text) ==
    LET s    == SkipSpaces(text)
        neg  == s # <<>> /\ Head(s) = "-"
        sgn  == s # <<>> /\ Head(s) \in {"-", "+"}
        rest == IF sgn THEN Tail(s) ELSE s
    IN  IF rest = <<>> \/ Head(rest) \notin Digits
        THEN NaN
        ELSE Num((IF neg THEN -1 ELSE 1) * DigitsPrefix(rest, 0))

\* parseInt(orderItem.quantity) || 1: NaN and 0 are falsy.
Quantity(raw) ==
    LET p == ParseInt(raw)
    IN  IF p.nan \/ p.val = 0 THEN 1 ELSE p.val

\* A rounding that cuts the digits off instead.
Truncate2(x) ==
    LET mag == IF x < 0 THEN -x ELSE x
        n   == mag \div 10000
    IN  IF x < 0 THEN -n ELSE n

\* x.toFixed(2) of an amount x given in ten-thousandths of a cent, as a
\* number of cents: the nearest cent, the larger magnitude on a tie, the
\* sign put back in front.
ToFixed2(x) ==
    LET mag == IF x < 0 THEN -x ELSE x
        n   == (mag + 5000) \div 10000
    IN  IF x < 0 THEN -n ELSE n

\* recipientPhone.replace(/[^0-9]/g, '')
FormatPhone(recipientPhone) ==
    SelectSeq(recipientPhone, LAMBDA c : c \in Digits)

RECURSIVE SumSeq(_)
SumSeq(s) == IF s = <<>> THEN 0 ELSE Head(s) + SumSeq(Tail(s))

Range(s) == {s[i] : i \in 1..Len(s)}

----------------------------------------------------------------------------
\* The store's catalog tables

\* restaurants: r1 charges 8% tax, r2 has no tax_rate in its settings.
Restaurants ==
    { [id |-> "r1", name |-> "Uno", settings |-> [tax_rate |-> 800]],
      [id |-> "r2", name |-> "Due", settings |-> [currency |-> "USD"]] }

\* menu_items without is_available, which Init chooses.
MenuItemRows ==
    { [id |-> "burger", restaurant_id |-> "r1", name |-> "Burger", price |-> 1000],
      [id |-> "fries",  restaurant_id |-> "r1", name |-> "Fries",  price |-> 349],
      [id |-> "sushi",  restaurant_id |-> "r2", name |-> "Sushi",  price |-> 1295] }

\* customization_options, in the order the store returns them.
CustomizationOptions ==
    << [id |-> "cheese", name |-> "Cheese", price |-> 150],
       [id |-> "bacon",  name |-> "Bacon",  price |-> 225] >>

\* restaurant.settings.tax_rate || 0
TaxRate(restaurant) ==
    IF "tax_rate" \in DOMAIN restaurant.settings
    THEN restaurant.settings.tax_rate
    ELSE 0

\* supabase.from('restaurants').select(..).eq('id', restaurantId)
SelectRestaurant(restaurantId) ==
    {x \in Restaurants : x.id = restaurantId}

\* supabase.from('menu_items').select(..).eq('restaurant_id', ..).in('id', itemIds)
SelectMenuItems(table, restaurantId, itemIds) ==
    {m \in table : m.restaurant_id = restaurantId /\ m.id \in itemIds}

\* A lookup of the options that answers nothing unless it knows every id.
SelectCustomizationOptionsAllOrNone(customizationIds) ==
    IF \A id \in customizationIds :
           \E k \in 1..Len(CustomizationOptions) : CustomizationOptions[k].id = id
    THEN SelectSeq(CustomizationOptions, LAMBDA opt : opt.id \in customizationIds)
    ELSE <<>>

\* supabase.from('customization_options').select(..).in('id', customizationIds)
SelectCustomizationOptions(customizationIds) ==
    SelectSeq(CustomizationOptions, LAMBDA opt : opt.id \in customizationIds)

----------------------------------------------------------------------------
\* Order creation: the pure steps

\* A test of the required fields that forgets the phone number.
MissingNameOrItems(b) ==
    Len(b.customer_name) = 0 \/ Len(b.items) = 0

\* !customer_name || !phone_number || !orderItems || orderItems.length === 0
MissingRequiredFields(b) ==
    Len(b.customer_name) = 0 \/ Len(b.phone_number) = 0 \/ Len(b.items) = 0

\* A handler that refuses an order only when nothing of it can be served.
UnavailableItemsIfNoneLeft(menuItems) ==
    IF \A m \in menuItems : ~m.is_available
    THEN {m \in menuItems : ~m.is_available}
    ELSE {}

\* menuItems.filter(item => !item.is_available)
UnavailableItems(menuItems) == {m \in menuItems : ~m.is_available}

\* menuItems.find(m => m.id === orderItem.id): the set of matches (ids are
\* unique in the table, so it holds at most one row).
FindMenuItem(menuItems, orderItem) == {m \in menuItems : m.id = orderItem.id}

\* A handler that trusts the price the client sent.
ItemPriceFromClient(orderItem, menuItem) ==
    IF orderItem.price > 0 THEN orderItem.price ELSE menuItem.price

\* menuItem.price, the price the line is charged at
ItemPrice(orderItem, menuItem) == menuItem.price

\* One turn of the loop over orderItems, for a line whose menu item was
\* found; customOptions is the data of the options query (<<>> when the
\* line selects nothing or the query returned no data).
CalculateItem(orderItem, menuItem, customOptions) ==
    LET quantity             == Quantity(orderItem.quantity)
        itemPrice            == ItemPrice(orderItem, menuItem)
        customizationDetails ==
            [i \in 1..Len(customOptions) |->
                [id |-> customOptions[i].id, name |-> customOptions[i].name,
                 price |-> customOptions[i].price]]
        customizationsTotal  ==
            SumSeq([i \in 1..Len(customOptions) |-> customOptions[i].price])
    IN  [id |-> menuItem.id, name |-> menuItem.name, price |-> menuItem.price,
         quantity |-> quantity, customizations |-> customizationDetails,
         item_total |-> (itemPrice + customizationsTotal) * quantity]

\* const tax = subtotal * taxRate
Tax(subtotal, taxRate) == subtotal * taxRate

\* const total = subtotal + tax
Total(subtotal, tax) == subtotal * 10000 + tax

----------------------------------------------------------------------------
\* Notifications

\* sendWhatsAppMessage up to its await: one call to the gateway is in flight.
SendWhatsAppMessage(calls, recipientPhone, message) ==
    Append(calls, [to |-> FormatPhone(recipientPhone), message |-> message,
                   state |-> "pending"])

\* A sender that sends again when the gateway refuses.
SettleAndRetry(calls, i, ok) ==
    IF ok
    THEN [calls EXCEPT ![i].state = "sent"]
    ELSE Append([calls EXCEPT ![i].state = "failed"],
                [calls[i] EXCEPT !.state = "pending"])

\* sendWhatsAppMessage after its await: the call returned (ok) or threw; the
\* catch logs and returns {success: false}.
SettleWhatsAppMessage(calls, i, ok) ==
    [calls EXCEPT ![i].state = IF ok THEN "sent" ELSE "failed"]

\* A handler that looks at the new status alone.
StatusMessageByNewStatus(oldStatus, status) ==
    IF status = "preparing" THEN "being_prepared"
    ELSE IF status = "ready" THEN "ready_for_pickup"
    ELSE IF status = "completed" THEN "completed_thanks"
    ELSE ""

\* The message a status change sends, "" for none (shouldSend stays false).
StatusMessage(oldStatus, status) ==
    IF status = "preparing" /\ oldStatus = "new" THEN "being_prepared"
    ELSE IF status = "ready" /\ oldStatus = "preparing" THEN "ready_for_pickup"
    ELSE IF status = "completed" /\ oldStatus = "ready" THEN "completed_thanks"
    ELSE ""

\* The gateway calls of a status change: the guard on the credentials and
\* the phone number, then shouldSend.
NotifyStatus(calls, configured, currentOrder, status) ==
    IF configured /\ currentOrder.phone_number # <<>>
       /\ StatusMessage(currentOrder.status, status) # ""
    THEN SendWhatsAppMessage(calls, currentOrder.phone_number,
                             StatusMessage(currentOrder.status, status))
    ELSE calls

\* The gateway calls of an order creation.
NotifyCreated(calls, configured, phone_number) ==
    IF configured
    THEN SendWhatsAppMessage(calls, phone_number, "order_confirmed")
    ELSE calls

----------------------------------------------------------------------------
\* Inputs

Phone == <<"+", "1", " ", "5">>

\* quantity as the client sends it: absent, not a number, zero, negative,
\* a number.
Quantities == { <<>>, <<"x">>, <<"0">>, <<"-", "2">>, <<"2">> }

\* The price field a client may put on its items and customizations; the
\* handler never reads it.
ClientPrices == {0, 1}

\* The option ids a client may select on a burger, whose options cheese
\* and bacon are; "nope" is no option of the store.
CustomizationIdLists ==
    { <<"cheese">>, <<"cheese", "nope", "bacon">> }

Customizations(ids, price) ==
    [i \in 1..Len(ids) |-> [id |-> ids[i], price |-> price]]

OrderItem(id, quantity, ids, price) ==
    [id |-> id, quantity |-> quantity, price |-> price,
     customizations |-> Customizations(ids, price)]

\* The lines a client may send, all priced by the client at `price`: a
\* burger or fries in any quantity, the burger with or without options, and
\* the two items restaurant r1 does not have, which the handler refuses
\* before it reads their quantity.
OrderItems(price) ==
    { OrderItem(id, q, <<>>, price) : id \in {"burger", "fries"}, q \in Quantities }
    \cup
    { OrderItem("burger", q, ids, price) :
        q \in Quantities, ids \in CustomizationIdLists }
    \cup
    { OrderItem(id, <<"2">>, <<>>, price) : id \in {"sushi", "ghost"} }

CreateBody(restaurantId, customer_name, phone_number, items) ==
    [kind |-> "create", restaurantId |-> restaurantId,
     customer_name |-> customer_name, phone_number |-> phone_number,
     items |-> items]

\* The order requests of Spec: one that succeeds at r1, one that succeeds
\* at r2, one that asks for fries.
SpecBodies ==
    { CreateBody("r1", <<"A">>, Phone,
                 <<OrderItem("burger", <<"2">>, <<"cheese">>, 0)>>),
      CreateBody("r2", <<"A">>, Phone,
                 <<OrderItem("sushi", <<"x">>, <<>>, 1)>>),
      CreateBody("r1", <<"A">>, Phone,
                 <<OrderItem("burger", <<>>, <<>>, 0), OrderItem("fries", <<"2">>, <<>>, 0)>>),
      CreateBody("r1", <<>>, Phone,
                 <<OrderItem("burger", <<"2">>, <<>>, 0)>>),
      CreateBody("r1", <<"A">>, <<>>,
                 <<OrderItem("burger", <<"2">>, <<>>, 0)>>),
      CreateBody("r1", <<"A">>, Phone, <<>>) }

\* The statuses a client asks for: any text is taken.
Statuses == {"preparing", "ready", "completed", "cancelled"}

\* Order ids: 0 is the order the store starts with; request r creates order r.
OrderIds == 0..MaxReq

\* The ids a status update names: order 0, and order 1, which exists only
\* once request 1 has created it.
UpdateTargets == {0, 1}

UpdateBody(orderId, status) ==
    [kind |-> "update", orderId |-> orderId, status |-> status]

UpdateBodies == {UpdateBody(id, st) : id \in UpdateTargets, st \in Statuses}

----------------------------------------------------------------------------
\* State

NoBody == [kind |-> "none"]

NoLoc == [at |-> "none"]

NoRes == [status |-> 0]

InitWith(unavailable, seedPhone, configured) ==
    /\ menu_items =
         { [id |-> m.id, restaurant_id |-> m.restaurant_id, name |-> m.name,
            price |-> m.price, is_available |-> m.id \notin unavailable]
           : m \in MenuItemRows }
    /\ orders = (0 :> [id |-> 0, restaurant_id |-> "r1", customer_name |-> <<"Z">>,
                       phone_number |-> seedPhone, order_items |-> <<>>,
                       total_amount |-> 0, status |-> "new"])
    /\ metaConfigured = configured
    /\ applied = [id \in OrderIds |-> <<>>]
    /\ pc = [r \in Requests |-> "idle"]
    /\ body = [r \in Requests |-> NoBody]
    /\ loc = [r \in Requests |-> NoLoc]
    /\ res = [r \in Requests |-> NoRes]
    /\ emitted = [r \in Requests |-> <<>>]
    /\ whatsapp = [r \in Requests |-> <<>>]

Init ==
    \E seedPhone \in {<<>>, Phone}, configured \in BOOLEAN :
        InitWith({"fries"}, seedPhone, configured)

\* Requests are taken in the order of their numbers.
NextToArrive(r) ==
    /\ pc[r] = "idle"
    /\ \A q \in Requests : q < r => pc[q] # "idle"

\* res.status(code).json(json), the handler is over.
Respond(r, code, json) ==
    /\ res' = [res EXCEPT ![r] = [status |-> code] @@ json]
    /\ pc' = [pc EXCEPT ![r] = "done"]

----------------------------------------------------------------------------
\* POST /api/restaurants/:restaurantId/orders

\* The request arrives; the required fields are tested before any store call.
CreateOrderReceive(r, b) ==
    /\ NextToArrive(r)
    /\ body' = [body EXCEPT ![r] = b]
    /\ IF MissingRequiredFields(b)
       THEN Respond(r, 400, [error |-> "Missing required fields"])
       ELSE /\ pc' = [pc EXCEPT ![r] = "restaurant"]
            /\ res' = res
    /\ UNCHANGED <<menu_items, orders, metaConfigured, applied, loc, emitted, whatsapp>>

\* The restaurants query returned: restError is thrown, else the tax rate is
\* read and the menu_items query is sent.
CreateOrderRestaurant(r) ==
    /\ pc[r] = "restaurant"
    /\ \E failed \in BOOLEAN :
        LET rows == SelectRestaurant(body[r].restaurantId)
        IN  IF failed \/ Cardinality(rows) # 1
            THEN /\ Respond(r, 500, [error |-> "restError"])
                 /\ loc' = loc
            ELSE /\ loc' = [loc EXCEPT ![r] =
                        [at |-> "create",
                         taxRate |-> TaxRate(CHOOSE x \in rows : TRUE),
                         menuItems |-> {}, i |-> 1, subtotal |-> 0,
                         calculatedItems |-> <<>>, optionsData |-> <<>>,
                         tax |-> 0, total |-> 0]]
                 /\ pc' = [pc EXCEPT ![r] = "menu"]
                 /\ res' = res
    /\ UNCHANGED <<menu_items, orders, metaConfigured, applied, body, emitted, whatsapp>>

\* The menu_items query returned: itemsError is thrown, an unavailable item
\* answers 400, else the loop over the lines starts.
CreateOrderMenuItems(r) ==
    /\ pc[r] = "menu"
    /\ \E failed \in BOOLEAN :
        LET itemIds     == {body[r].items[i].id : i \in 1..Len(body[r].items)}
            menuItems   == SelectMenuItems(menu_items, body[r].restaurantId, itemIds)
            unavailable == UnavailableItems(menuItems)
        IN  IF failed
            THEN /\ Respond(r, 500, [error |-> "itemsError"])
                 /\ loc' = loc
            ELSE IF unavailable # {}
            THEN /\ Respond(r, 400,
                        [error |-> "Some items are currently unavailable",
                         unavailable |-> {m.name : m \in unavailable}])
                 /\ loc' = loc
            ELSE /\ loc' = [loc EXCEPT ![r].menuItems = menuItems]
                 /\ pc' = [pc EXCEPT ![r] = "line"]
                 /\ res' = res
    /\ UNCHANGED <<menu_items, orders, metaConfigured, applied, body, emitted, whatsapp>>

\* One turn of the loop over orderItems: a line whose item is not among
\* menuItems throws; the options query of the line (sent only when the line
\* selects something) may return no data, which the code takes as no option;
\* after the last line tax and total are computed and the insert is sent.
CreateOrderLine(r) ==
    /\ pc[r] = "line"
    /\ LET l         == loc[r]
           orderItem == body[r].items[l.i]
           found     == FindMenuItem(l.menuItems, orderItem)
           selects   == Len(orderItem.customizations) > 0
       IN  IF found = {}
           THEN /\ Respond(r, 500, [error |-> "Item not found"])
                /\ loc' = loc
           ELSE \E noData \in (IF selects THEN BOOLEAN ELSE {FALSE}) :
                LET customOptions ==
                        IF selects /\ ~noData
                        THEN SelectCustomizationOptions(
                                 {orderItem.customizations[k].id :
                                     k \in 1..Len(orderItem.customizations)})
                        ELSE <<>>
                    item     == CalculateItem(orderItem, CHOOSE m \in found : TRUE,
                                              customOptions)
                    subtotal == l.subtotal + item.item_total
                    last     == l.i = Len(body[r].items)
                IN  /\ loc' = [loc EXCEPT ![r] =
                           [l EXCEPT !.i = l.i + 1,
                                     !.subtotal = subtotal,
                                     !.calculatedItems = Append(l.calculatedItems, item),
                                     !.optionsData =
                                         Append(l.optionsData, selects /\ ~noData),
                                     !.tax = IF last THEN Tax(subtotal, l.taxRate) ELSE 0,
                                     !.total = IF last
                                               THEN Total(subtotal, Tax(subtotal, l.taxRate))
                                               ELSE 0]]
                    /\ pc' = [pc EXCEPT ![r] = IF last THEN "insert" ELSE "line"]
                    /\ res' = res
    /\ UNCHANGED <<menu_items, orders, metaConfigured, applied, body, emitted, whatsapp>>

\* The row the handler inserts; request r's uuid is r.
OrderRow(r) ==
    [id |-> r, restaurant_id |-> body[r].restaurantId,
     customer_name |-> body[r].customer_name,
     phone_number |-> body[r].phone_number,
     order_items |-> loc[r].calculatedItems,
     total_amount |-> ToFixed2(loc[r].total), status |-> "new"]

\* The payload of 'new-kds-order'.
NewKdsOrder(r) ==
    [event |-> "new-kds-order", id |-> r, items |-> loc[r].calculatedItems,
     subtotal |-> loc[r].subtotal, tax |-> ToFixed2(loc[r].tax),
     total |-> ToFixed2(loc[r].total), status |-> "new"]

\* The json of the success response.
CreatedJson(r) ==
    [success |-> TRUE,
     order |-> [id |-> r, items |-> loc[r].calculatedItems,
                subtotal |-> loc[r].subtotal, tax |-> ToFixed2(loc[r].tax),
                total |-> ToFixed2(loc[r].total)]]

\* A handler that tells the kitchen displays before it tests dbError.
CreateOrderInsertEmitFirst(r) ==
    /\ pc[r] = "insert"
    /\ emitted' = [emitted EXCEPT ![r] = Append(emitted[r], NewKdsOrder(r))]
    /\ \E failed \in BOOLEAN :
        IF failed
        THEN /\ Respond(r, 500, [error |-> "dbError"])
             /\ UNCHANGED <<orders, whatsapp>>
        ELSE /\ orders' = (r :> OrderRow(r)) @@ orders
             /\ whatsapp' = [whatsapp EXCEPT ![r] =
                    NotifyCreated(whatsapp[r], metaConfigured, body[r].phone_number)]
             /\ Respond(r, 200, CreatedJson(r))
    /\ UNCHANGED <<menu_items, metaConfigured, applied, body, loc>>

\* The insert returned: dbError is thrown, else the confirmation is sent
\* (when messaging is configured), the kitchen displays are told and the
\* response is written, all without another await.
CreateOrderInsert(r) ==
    /\ pc[r] = "insert"
    /\ \E failed \in BOOLEAN :
        IF failed
        THEN /\ Respond(r, 500, [error |-> "dbError"])
             /\ UNCHANGED <<orders, emitted, whatsapp>>
        ELSE /\ orders' = (r :> OrderRow(r)) @@ orders
             /\ whatsapp' = [whatsapp EXCEPT ![r] =
                    NotifyCreated(whatsapp[r], metaConfigured, body[r].phone_number)]
             /\ emitted' = [emitted EXCEPT ![r] = Append(emitted[r], NewKdsOrder(r))]
             /\ Respond(r, 200, CreatedJson(r))
    /\ UNCHANGED <<menu_items, metaConfigured, applied, body, loc>>

----------------------------------------------------------------------------
\* PUT /api/orders/:orderId/status

UpdateStatusReceive(r) ==
    /\ NextToArrive(r)
    /\ \E b \in UpdateBodies :
        body' = [body EXCEPT ![r] = b]
    /\ pc' = [pc EXCEPT ![r] = "fetch"]
    /\ UNCHANGED <<menu_items, orders, metaConfigured, applied, loc, res, emitted, whatsapp>>

\* The response to a fetchError or to the update's error.
StoreErrorResponse(r, error) ==
    Respond(r, 500, [success |-> FALSE, error |-> error])

\* The read of the current row returned: .single() gives an error when no
\* row has the id; else the update is sent.
UpdateStatusFetch(r) ==
    /\ pc[r] = "fetch"
    /\ \E failed \in BOOLEAN :
        IF failed \/ body[r].orderId \notin DOMAIN orders
        THEN /\ StoreErrorResponse(r, "fetchError")
             /\ loc' = loc
        ELSE /\ loc' = [loc EXCEPT ![r] =
                    [at |-> "update", currentOrder |-> orders[body[r].orderId],
                     fetchedAt |-> Len(applied[body[r].orderId]), wroteAt |-> 0]]
             /\ pc' = [pc EXCEPT ![r] = "update"]
             /\ res' = res
    /\ UNCHANGED <<menu_items, orders, metaConfigured, applied, body, emitted, whatsapp>>

\* The payload of 'order_updated'.
OrderUpdated(r) ==
    [event |-> "order_updated", orderId |-> body[r].orderId,
     status |-> body[r].status]

\* A handler that tells the kitchen displays of recognized changes only.
EmitOrderUpdatedIfRecognized(events, r) ==
    IF StatusMessage(loc[r].currentOrder.status, body[r].status) # ""
    THEN Append(events, OrderUpdated(r))
    ELSE events

\* io.emit('order_updated', ..), which no condition guards.
EmitOrderUpdated(events, r) == Append(events, OrderUpdated(r))

\* An update that the store applies only to the status the request read.
StoreUpdateIfUnchanged(table, r) ==
    IF table[body[r].orderId].status = loc[r].currentOrder.status
    THEN [table EXCEPT ![body[r].orderId].status = body[r].status]
    ELSE table

\* What the store does with the update of request r: the row takes the
\* new status whatever it holds.
StoreUpdate(table, r) ==
    [table EXCEPT ![body[r].orderId].status = body[r].status]

\* The update returned: on an error the handler answers 500; else the
\* customer is told of a recognized change, the kitchen displays are told
\* and the response is written, all without another await.
UpdateStatusWrite(r) ==
    /\ pc[r] = "update"
    /\ \E failed \in BOOLEAN :
        IF failed \/ body[r].orderId \notin DOMAIN orders
        THEN /\ StoreErrorResponse(r, "updateError")
             /\ UNCHANGED <<orders, applied, emitted, whatsapp, loc>>
        ELSE /\ orders' = StoreUpdate(orders, r)
             /\ loc' = [loc EXCEPT ![r].wroteAt = Len(applied[body[r].orderId]) + 1]
             /\ applied' = [applied EXCEPT ![body[r].orderId] = Append(@, r)]
             /\ whatsapp' = [whatsapp EXCEPT ![r] =
                    NotifyStatus(whatsapp[r], metaConfigured,
                                 loc[r].currentOrder, body[r].status)]
             /\ emitted' = [emitted EXCEPT ![r] = EmitOrderUpdated(emitted[r], r)]
             /\ Respond(r, 200, [success |-> TRUE,
                                 order |-> StoreUpdate(orders, r)[body[r].orderId]])
    /\ UNCHANGED <<menu_items, metaConfigured, body>>

----------------------------------------------------------------------------
\* The messaging gateway answers a call of request r.
WhatsAppResponse(r) ==
    /\ \E i \in 1..Len(whatsapp[r]), ok \in BOOLEAN :
        /\ whatsapp[r][i].state = "pending"
        /\ whatsapp' = [whatsapp EXCEPT ![r] = SettleWhatsAppMessage(whatsapp[r], i, ok)]
    /\ UNCHANGED <<menu_items, orders, metaConfigured, applied, pc, body, loc, res, emitted>>

----------------------------------------------------------------------------
\* Specifications

CreateSteps(r) ==
    \/ CreateOrderRestaurant(r)
    \/ CreateOrderMenuItems(r)
    \/ CreateOrderLine(r)
    \/ CreateOrderInsert(r)

Next ==
    \E r \in Requests :
        \/ NextToArrive(r) /\ \E b \in SpecBodies : CreateOrderReceive(r, b)
        \/ CreateSteps(r)
        \/ UpdateStatusReceive(r)
        \/ UpdateStatusFetch(r)
        \/ UpdateStatusWrite(r)
        \/ WhatsAppResponse(r)

Spec == Init /\ [][Next]_vars

\* One order request to restaurant r1, over every combination of lines,
\* with messaging configured.
InitPricing ==
    \E unavailable \in SUBSET {"fries"} : InitWith(unavailable, Phone, TRUE)

NextPricing ==
    \/ NextToArrive(1) /\ \E price \in ClientPrices, n \in 0..MaxLines :
         \E items \in [1..n -> OrderItems(price)] :
            CreateOrderReceive(1, CreateBody("r1", <<"A">>, Phone, items))
    \/ CreateSteps(1)
    \/ WhatsAppResponse(1)

SpecPricing == InitPricing /\ [][NextPricing]_vars

----------------------------------------------------------------------------
\* What the claims speak of

IsCreate(r) == body[r].kind = "create"

IsUpdate(r) == body[r].kind = "update"

Done(r) == pc[r] = "done"

\* Request r created its order: the success response was written.
Created(r) == IsCreate(r) /\ Done(r) /\ res[r].status = 200

\* The handler threw (or returned on) the error named e.
Failed(r, e) == Done(r) /\ "error" \in DOMAIN res[r] /\ res[r].error = e

\* The catalog rows of the restaurant of request r with the id of line i.
CatalogRows(r, i) ==
    {m \in menu_items :
        m.id = body[r].items[i].id /\ m.restaurant_id = body[r].restaurantId}

\* The catalog prices of the options with an id among ids, as a bag would
\* hold them: one entry per option of the store.
RECURSIVE CatalogOptionPrices(_, _)
CatalogOptionPrices(ids, k) ==
    IF k = 0 THEN 0
    ELSE CatalogOptionPrices(ids, k - 1)
         + (IF CustomizationOptions[k].id \in ids
            THEN CustomizationOptions[k].price ELSE 0)

SelectedIds(orderItem) ==
    {orderItem.customizations[k].id : k \in 1..Len(orderItem.customizations)}

\* Line orderItem with every price field the client sent replaced by price.
WithClientPrice(orderItem, price) ==
    [orderItem EXCEPT
        !.price = price,
        !.customizations =
            [k \in 1..Len(orderItem.customizations) |->
                [orderItem.customizations[k] EXCEPT !.price = price]]]

\* The ids of the options the store has.
OptionIds == {CustomizationOptions[k].id : k \in 1..Len(CustomizationOptions)}

\* The ids line orderItem selects that no option of the store has.
UnknownIds(orderItem) == SelectedIds(orderItem) \ OptionIds

\* Line orderItem as the client would have sent it without those ids.
WithoutUnknownIds(orderItem) ==
    [orderItem EXCEPT
        !.customizations = SelectSeq(@, LAMBDA c : c.id \in OptionIds)]

\* No order row, no broadcast and no customer message came of request r.
NothingCameOf(r) ==
    /\ r \notin DOMAIN orders
    /\ emitted[r] = <<>>
    /\ whatsapp[r] = <<>>

----------------------------------------------------------------------------
C2_Totals ==
    \A r \in Requests : Created(r) =>
        LET items    == res[r].order.items
            subtotal == SumSeq([i \in 1..Len(items) |-> items[i].item_total])
            rate     == TaxRate(CHOOSE x \in Restaurants : x.id = body[r].restaurantId)
            exact    == subtotal * 10000 + subtotal * rate
            total    == res[r].order.total
            off      == total * 10000 - exact
        IN  /\ res[r].order.subtotal = subtotal
            /\ loc[r].tax = subtotal * rate
            /\ 2 * off <= 10000 /\ 2 * off >= -10000
            /\ exact >= 0 => (off > -5000 /\ off <= 5000)
            /\ orders[r].total_amount = total
            /\ \A e \in Range(emitted[r]) : e.total = total /\ e.subtotal = subtotal
            /\ ( /\ body[r].restaurantId = "r1"
                 /\ Len(body[r].items) = 1
                 /\ body[r].items[1].id = "burger"
                 /\ body[r].items[1].quantity = <<"2">>
                 /\ SelectedIds(body[r].items[1]) = {"cheese"}
                 /\ loc[r].optionsData[1] )
               => /\ subtotal = 2300
                  /\ res[r].order.tax = 184
                  /\ total = 2484

\* C2 witness: the order of the scenario was created and stored with the
\* total 24.84.
C2_Witness ==
    \E r \in Requests :
        /\ Created(r)
        /\ res[r].order.subtotal = 2300
        /\ res[r].order.total = 2484
        /\ orders[r].total_amount = 2484

\* C3: when an item of the request is unavailable in the catalog of the
\* restaurant, nothing comes of the request (no order row, no broadcast, no
\* customer message), whatever its other lines are; and once the request has
\* passed the test of the required fields and its two catalog reads have
\* returned, the answer is 400 with the names of the unavailable items.
C3_UnavailableRejectsAll ==
    \A r \in Requests :
        (IsCreate(r) /\ \E i \in 1..Len(body[r].items) :
                            \E m \in CatalogRows(r, i) : ~m.is_available)
        => /\ NothingCameOf(r)
           /\ ( /\ Done(r)
                /\ ~MissingRequiredFields(body[r])
                /\ ~Failed(r, "restError")
                /\ ~Failed(r, "itemsError") )
              => /\ res[r].status = 400
                 /\ "unavailable" \in DOMAIN res[r]
                 /\ res[r].unavailable =
                      {m.name : m \in
                          {x \in menu_items :
                              /\ ~x.is_available
                              /\ x.restaurant_id = body[r].restaurantId
                              /\ \E i \in 1..Len(body[r].items) :
                                    body[r].items[i].id = x.id}}

\* C3 witness: a request for a burger, which is available, and for fries,
\* which are not, was answered 400 with the name of the fries.
C3_Witness ==
    \E r \in Requests :
        /\ IsCreate(r) /\ Done(r)
        /\ Len(body[r].items) = 2
        /\ body[r].items[1].id = "burger"
        /\ body[r].items[2].id = "fries"
        /\ res[r].status = 400
        /\ "unavailable" \in DOMAIN res[r]
        /\ res[r].unavailable = {"Fries"}

\* C8: a request that names an item with no catalog row for its restaurant
\* is answered 404, and nothing comes of it (the request has the required
\* fields, its catalog reads returned and no item of it is unavailable).
C8_UnknownItemIs404 ==
    \A r \in Requests :
        ( /\ IsCreate(r) /\ Done(r)
          /\ ~MissingRequiredFields(body[r])
          /\ ~Failed(r, "restError") /\ ~Failed(r, "itemsError")
          /\ "unavailable" \notin DOMAIN res[r]
          /\ \E i \in 1..Len(body[r].items) : CatalogRows(r, i) = {} )
        => /\ res[r].status = 404
           /\ NothingCameOf(r)

\* C10: whatever the client sends as quantity, every line of a created
\* order has a quantity of at least 1, so no line total and no subtotal of
\* a stored order is negative.
C10_QuantityPositive ==
    \A r \in Requests : Created(r) =>
        /\ \A i \in 1..Len(res[r].order.items) :
            /\ res[r].order.items[i].quantity >= 1
            /\ res[r].order.items[i].item_total >= 0
        /\ res[r].order.subtotal >= 0
        /\ orders[r].total_amount >= 0

----------------------------------------------------------------------------
\* Status updates

\* The store applied the update of request r.
Wrote(r) == IsUpdate(r) /\ Done(r) /\ res[r].status = 200

\* No update of the same order was applied between the read and the write
\* of request r.
Uninterleaved(r) == loc[r].wroteAt = loc[r].fetchedAt + 1

RecognizedTransitions ==
    { <<"new", "preparing">>, <<"preparing", "ready">>, <<"ready", "completed">> }

LastOf(s) == s[Len(s)]

\* C4: a status update that was applied to an order with a phone number,
\* with messaging configured and no other update of the order in between,
\* sends one customer message, to that phone, when (old, new) is (new,
\* preparing), (preparing, ready) or (ready, completed), and none otherwise.
C4_MessageOnRecognizedOnly ==
    \A r \in Requests :
        ( /\ Wrote(r)
          /\ metaConfigured
          /\ loc[r].currentOrder.phone_number # <<>>
          /\ Uninterleaved(r) )
        => IF <<loc[r].currentOrder.status, body[r].status>> \in RecognizedTransitions
           THEN /\ Len(whatsapp[r]) = 1
                /\ whatsapp[r][1].to = <<"1", "5">>
           ELSE whatsapp[r] = <<>>

\* C4 witness: an update new -> preparing sent its one message, and then
\* an update preparing -> ready sent its own.
C4_Witness ==
    \E r, q \in Requests :
        /\ Wrote(r) /\ Uninterleaved(r)
        /\ loc[r].currentOrder.status = "preparing" /\ body[r].status = "ready"
        /\ Len(whatsapp[r]) = 1
        /\ Wrote(q) /\ Uninterleaved(q) /\ metaConfigured
        /\ loc[q].currentOrder.phone_number # <<>>
        /\ loc[q].currentOrder.status = "new" /\ body[q].status = "preparing"
        /\ Len(whatsapp[q]) = 1

\* C5: every status update the store applied emitted exactly one
\* 'order_updated' with the order id and the new status, whatever the pair
\* of statuses, the messaging configuration and the text of the new status.
C5_BroadcastOnEveryWrite ==
    \A r \in Requests : IsUpdate(r) =>
        \A k \in 1..Len(applied[body[r].orderId]) :
            applied[body[r].orderId][k] = r
            => /\ Len(emitted[r]) = 1
               /\ emitted[r][1].event = "order_updated"
               /\ emitted[r][1].orderId = body[r].orderId
               /\ emitted[r][1].status = body[r].status

\* C5 witness: with messaging not configured, an update new -> cancelled
\* was applied and broadcast.
C5_Witness ==
    \E r \in Requests :
        /\ Wrote(r)
        /\ ~metaConfigured
        /\ loc[r].currentOrder.status = "new" /\ body[r].status = "cancelled"
        /\ orders[body[r].orderId].status = "cancelled"
        /\ Len(emitted[r]) = 1

\* C6: the store keeps the status of the update it applied last, whatever
\* the writer had read; and of two applied updates of one order that read
\* the same row before either wrote, each sends the message of the pair it
\* read, so a recognized change asked for twice is announced twice.
C6_RaceOutcome ==
    /\ \A id \in DOMAIN orders :
        applied[id] # <<>> => orders[id].status = body[LastOf(applied[id])].status
    /\ \A r, q \in Requests :
        ( /\ r # q /\ Wrote(r) /\ Wrote(q)
          /\ body[r].orderId = body[q].orderId
          /\ loc[r].fetchedAt = loc[q].fetchedAt
          /\ body[r].status = body[q].status
          /\ metaConfigured /\ loc[r].currentOrder.phone_number # <<>>
          /\ <<loc[r].currentOrder.status, body[r].status>> \in RecognizedTransitions )
        => /\ loc[q].currentOrder.status = loc[r].currentOrder.status
           /\ Len(whatsapp[r]) = 1 /\ Len(whatsapp[q]) = 1
           /\ whatsapp[r][1].message = whatsapp[q][1].message

\* C6 witness: two updates read the order as new before either wrote, both
\* were applied and both announced new -> preparing; the store holds the
\* status of the later write.
C6_Witness ==
    \E r, q \in Requests :
        /\ r # q /\ Wrote(r) /\ Wrote(q)
        /\ body[r].orderId = body[q].orderId
        /\ loc[r].fetchedAt = loc[q].fetchedAt
        /\ loc[r].currentOrder.status = "new" /\ loc[q].currentOrder.status = "new"
        /\ body[r].status = "preparing" /\ body[q].status = "preparing"
        /\ Len(whatsapp[r]) = 1 /\ Len(whatsapp[q]) = 1
        /\ loc[r].wroteAt < loc[q].wroteAt
        /\ orders[body[q].orderId].status = "preparing"

\* C7: a request that called the messaging gateway has its success response,
\* its order row (or its update applied) and its one broadcast, and made
\* one call only, whether that call is still out, succeeded or failed.
C7_SendOutcomeIgnored ==
    \A r \in Requests : whatsapp[r] # <<>> =>
        /\ Done(r)
        /\ res[r].status = 200 /\ res[r].success
        /\ Len(emitted[r]) = 1
        /\ Len(whatsapp[r]) = 1
        /\ IsCreate(r) =>
            /\ r \in DOMAIN orders
            /\ orders[r].order_items = res[r].order.items
            /\ orders[r].total_amount = res[r].order.total
        /\ IsUpdate(r) =>
            /\ \E k \in 1..Len(applied[body[r].orderId]) :
                  applied[body[r].orderId][k] = r
            /\ LastOf(applied[body[r].orderId]) = r
               => orders[body[r].orderId].status = body[r].status

\* C7 witness: the gateway refused the confirmation of a created order and
\* the message of an applied status update.
C7_Witness ==
    \E r, q \in Requests :
        /\ Created(r) /\ whatsapp[r] # <<>> /\ whatsapp[r][1].state = "failed"
        /\ Wrote(q) /\ whatsapp[q] # <<>> /\ whatsapp[q][1].state = "failed"

\* C9: a status update of an order id that no row has is answered 404 and
\* writes nothing, broadcasts nothing and sends nothing.
C9_MissingOrderIs404 ==
    \A r \in Requests :
        (IsUpdate(r) /\ Done(r) /\ body[r].orderId \notin DOMAIN orders)
        => /\ res[r].status = 404
           /\ applied[body[r].orderId] = <<>>
           /\ emitted[r] = <<>>
           /\ whatsapp[r] = <<>>

\* C11: an order-creation request without a customer name, without a phone
\* number or without any item (the list absent or empty) is answered 400
\* "Missing required fields" by the step that receives it: it never reaches
\* a store read or write (it holds no result of a read), and no order row,
\* no broadcast and no customer message comes of it.
C11_MissingFieldsIs400 ==
    \A r \in Requests :
        (/\ IsCreate(r)
         /\ \/ body[r].customer_name = <<>>
            \/ body[r].phone_number = <<>>
            \/ body[r].items = <<>>)
        => /\ Done(r)
           /\ res[r].status = 400
           /\ res[r].error = "Missing required fields"
           /\ loc[r] = NoLoc
           /\ NothingCameOf(r)

\* C11 witness: two requests were refused with 400, one whose list of items
\* is empty and one that has items and a name but no phone number.
C11_Witness ==
    \E r, q \in Requests :
        /\ IsCreate(r) /\ IsCreate(q)
        /\ res[r].status = 400 /\ res[q].status = 400
        /\ body[r].items = <<>> /\ body[r].customer_name # <<>>
        /\ body[r].phone_number # <<>>
        /\ body[q].phone_number = <<>> /\ body[q].customer_name # <<>>
        /\ body[q].items # <<>>

\* C12: a line that selects a customization id the store does not have does
\* not fail the request: a request with such a line that is not answered 200
\* failed for a cause that is not the id (a required field missing, a store
\* call that failed, an item the restaurant does not have or does not serve).
\* In the order it creates, no customization of the resolved line has that
\* id, and the resolved line, its total included, is the line the handler
\* computes for the same request line without the id, given the same answer
\* of the store to the options query.
C12_UnknownCustomizationIgnored ==
    \A r \in Requests :
        (/\ IsCreate(r) /\ Done(r)
         /\ \E i \in 1..Len(body[r].items) : UnknownIds(body[r].items[i]) # {})
        => /\ res[r].status # 200 =>
                \/ body[r].customer_name = <<>>
                \/ body[r].phone_number = <<>>
                \/ Failed(r, "restError")
                \/ Failed(r, "itemsError")
                \/ Failed(r, "dbError")
                \/ \E i \in 1..Len(body[r].items) :
                      \/ CatalogRows(r, i) = {}
                      \/ \E m \in CatalogRows(r, i) : ~m.is_available
           /\ res[r].status = 200 =>
                \A i \in 1..Len(body[r].items) :
                    LET orderItem == body[r].items[i]
                        line      == res[r].order.items[i]
                        sent      == WithoutUnknownIds(orderItem)
                        m         == CHOOSE m \in CatalogRows(r, i) : TRUE
                        data      == IF loc[r].optionsData[i]
                                     THEN SelectCustomizationOptions(SelectedIds(sent))
                                     ELSE <<>>
                    IN  UnknownIds(orderItem) # {} =>
                          /\ \A k \in 1..Len(line.customizations) :
                                line.customizations[k].id \notin UnknownIds(orderItem)
                          /\ line = CalculateItem(sent, m, data)
                          /\ orders[r].order_items[i] = line

\* C12 witness: an order was created with a line of two burgers that selects
\* cheese, an id the store does not have, and bacon; the line is resolved
\* with cheese and bacon and charged (10.00 + 1.50 + 2.25) x 2.
C12_Witness ==
    \E r \in Requests :
        /\ Created(r)
        /\ \E i \in 1..Len(body[r].items) :
            /\ SelectedIds(body[r].items[i]) = {"cheese", "nope", "bacon"}
            /\ loc[r].optionsData[i]
            /\ Len(res[r].order.items[i].customizations) = 2
            /\ res[r].order.items[i].quantity = 2
            /\ res[r].order.items[i].item_total = 2750

\* C13: in every state, a 'new-kds-order' broadcast or an order confirmation
\* of a request carries the id of an order row that this request inserted,
\* and an 'order_updated' broadcast or a status message of a request carries
\* the order id and the status of an update of this request that the store
\* applied; a request whose insert failed (dbError) or whose update failed
\* (updateError) is answered 500, has persisted nothing and has no broadcast
\* and no customer message, then and ever after.
C13_NotifyOnlyAfterPersisted ==
    \A r \in Requests :
        /\ (IsCreate(r) /\ (emitted[r] # <<>> \/ whatsapp[r] # <<>>))
           => /\ r \in DOMAIN orders
              /\ orders[r].id = r
              /\ Created(r)
              /\ \A k \in 1..Len(emitted[r]) :
                    /\ emitted[r][k].event = "new-kds-order"
                    /\ emitted[r][k].id = r
              /\ \A k \in 1..Len(whatsapp[r]) :
                    whatsapp[r][k].message = "order_confirmed"
        /\ (IsUpdate(r) /\ (emitted[r] # <<>> \/ whatsapp[r] # <<>>))
           => /\ r \in Range(applied[body[r].orderId])
              /\ Wrote(r)
              /\ \A k \in 1..Len(emitted[r]) :
                    /\ emitted[r][k].event = "order_updated"
                    /\ emitted[r][k].orderId = body[r].orderId
                    /\ emitted[r][k].status = body[r].status
              /\ \A k \in 1..Len(whatsapp[r]) :
                    whatsapp[r][k].message =
                        StatusMessage(loc[r].currentOrder.status, body[r].status)
        /\ Failed(r, "dbError")
           => /\ res[r].status = 500
              /\ NothingCameOf(r)
        /\ Failed(r, "updateError")
           => /\ res[r].status = 500
              /\ r \notin Range(applied[body[r].orderId])
              /\ emitted[r] = <<>>
              /\ whatsapp[r] = <<>>

\* C13 witness: the insert of one request failed and nothing came of it,
\* while a status update of another request was applied and then broadcast
\* and told to the customer.
C13_Witness ==
    \E r, q \in Requests :
        /\ Failed(r, "dbError") /\ NothingCameOf(r)
        /\ Wrote(q) /\ emitted[q] # <<>> /\ whatsapp[q] # <<>>

====
